---- MODULE Spec2Model ----
(***************************************************************************)
(* A model of the tracer benchmark kernel module (src/tracerbench.c): the  *)
(* debugfs triggers benchmark_write and percentile_write, the per-CPU      *)
(* sampling threads, the shared top-K min-heaps and the system-wide        *)
(* aggregation in run_benchmark.  Two smaller models follow it: mod_init   *)
(* of src/tracerstress.c (variable ts) and the single-file variant         *)
(* src/unnamed/part_000 (variable sf).                                     *)
(*                                                                         *)
(* u64 and size_t are modelled as WordBits-bit unsigned words; arithmetic  *)
(* that the C code performs in u64 wraps modulo 2^WordBits here.           *)
(***************************************************************************)
EXTENDS Integers, Sequences, FiniteSets, TLC

(* ------------------------------------------------------------------ *)
(* Bounds of the model                                                 *)
(* ------------------------------------------------------------------ *)

\* width of the modelled u64 / size_t word
WordBits == 16
\* number of online CPUs (one sampling thread each)
NCPU == 2
\* largest value a write to the nr_samples config file stores
MaxSamples == 2
\* largest value a write to the nr_highest config file stores
MaxHighest == 2
\* largest short duration the clock yields for the local_irq pair
MaxIrqDelta == 1
\* largest duration the clock yields for the preempt pair
MaxPreemptDelta == 1
\* number of benchmark runs that get as far as allocating the heaps
MaxRuns == 2
\* the same, in the behaviours with a percentile writer or a result reader
MaxRunsObserved == 1
\* number of writes to the two config files
MaxConfigWrites == 1
\* number of writes to the percentile trigger
MaxPercentileWrites == 1
\* longest array handed to a statistics function called on its own
MaxArrayLen == 5
\* largest short duration in such an array
MaxArrayVal == 5
\* largest number of online CPUs the tracerstress module is loaded on
MaxStressCpus == 3
\* the longer of the two irqsoff durations a tracerstress thread can measure
MaxStressDelta == 4
\* number of writes to the benchmark file of the single-file variant
MaxDbgfsWrites == 2

Modulus == 2 ^ WordBits
U64Max == Modulus - 1

CPUs == 1 .. NCPU
Ops == {"irq", "preempt"}

\* durations ktime_get_ns() differences can take in the model: short ones,
\* and for local_irq one so long that two of them do not fit a word
LongDelta == U64Max - 1
IrqVals == (1 .. MaxIrqDelta) \cup {LongDelta}
PreemptVals == 1 .. MaxPreemptDelta
OpVals(op) == IF op = "irq" THEN IrqVals ELSE PreemptVals

\* arrays of durations handed to a statistics function called on its own
ArrayVals == (1 .. MaxArrayVal) \cup {LongDelta}
Arrays == UNION {[1 .. n -> ArrayVals] : n \in 1 .. MaxArrayLen}

\* percentiles that pass the range test of percentile_write
ValidPercents == {1, 25, 50, 99, 100}

\* values a user writes to the percentile trigger
PercentInputs == {0, 1, 50, 100, 101}

\* errno values
EINVAL == 22
ENOMEM == 12
\* the byte count a successful write returns
WriteCount == 1

(* ------------------------------------------------------------------ *)
(* Pure helpers                                                        *)
(* ------------------------------------------------------------------ *)

Min(a, b) == IF a < b THEN a ELSE b
Max(a, b) == IF a > b THEN a ELSE b

\* check_add_overflow(a, b, &d): d gets the wrapped sum, the result says
\* whether the true sum did not fit
check_add_overflow(a, b) ==
    [sum |-> (a + b) % Modulus, overflow |-> (a + b) >= Modulus]

\* check_mul_overflow(a, b, &d)
check_mul_overflow(a, b) ==
    [prod |-> (a * b) % Modulus, overflow |-> (a * b) >= Modulus]

\* the wrapped sum of a sequence, with the "some addition overflowed" flag,
\* accumulated left to right as the for loops of the code do
RECURSIVE SumFrom(_, _, _)
SumFrom(s, i, acc) ==
    IF i > Len(s) THEN acc
    ELSE LET r == check_add_overflow(acc.sum, s[i])
         IN SumFrom(s, i + 1,
                    [sum |-> r.sum, overflow |-> acc.overflow \/ r.overflow])

CheckedSum(s) == SumFrom(s, 1, [sum |-> 0, overflow |-> FALSE])

\* insert x into the ascending sequence s
RECURSIVE InsertSorted(_, _)
InsertSorted(s, x) ==
    IF s = <<>> THEN <<x>>
    ELSE IF x <= Head(s) THEN <<x>> \o s
    ELSE <<Head(s)>> \o InsertSorted(Tail(s), x)

\* sort(p, n, sizeof(u64), u64_cmp, u64_swp): p ascending by u64_cmp
RECURSIVE sort(_)
sort(p) ==
    IF p = <<>> THEN <<>> ELSE InsertSorted(sort(Tail(p)), Head(p))

\* median_and_max(p, n, max_val) for n = Len(p) >= 1: the array after the
\* in-place sort, the value stored to *max_val and the value returned.
\* p[pos] + p[pos-1] is a u64 addition and wraps.
median_and_max(p) ==
    LET n == Len(p)
        s == sort(p)
        pos == n \div 2
    IN [sorted |-> s,
        max    |-> s[n],
        median |-> IF n % 2 = 1 THEN s[pos + 1]
                   ELSE ((s[pos + 1] + s[pos]) % Modulus) \div 2]

\* a percentile taken from the array as collected, without the sort
nth_percentile_unsorted(percentile, p) ==
    LET n   == Len(p)
        tmp == check_mul_overflow(n, percentile).prod
        pos == Max(0, Min(tmp \div 100, n - 1))
    IN p[pos + 1]

\* nth_percentile(percentile, p, n) for n = Len(p) >= 1
nth_percentile(percentile, p) ==
    LET n   == Len(p)
        tmp == check_mul_overflow(n, percentile).prod
        pos == Max(0, Min(tmp \div 100, n - 1))
    IN sort(p)[pos + 1]

(* ------------------------------------------------------------------ *)
(* The u64 min-heap (DEFINE_MIN_HEAP(u64, u64_min_heap))               *)
(* A heap is [nr, size, data]: data holds the nr live slots, in array  *)
(* order (slot 0 of the C array is data[1]).                           *)
(* ------------------------------------------------------------------ *)

Swap(d, i, j) == [d EXCEPT ![i] = d[j], ![j] = d[i]]

\* min_heap_sift_up: move slot pos (1-based) towards the root
RECURSIVE SiftUp(_, _)
SiftUp(d, pos) ==
    IF pos = 1 THEN d
    ELSE LET parent == pos \div 2
         IN IF d[pos] < d[parent] THEN SiftUp(Swap(d, pos, parent), parent)
            ELSE d

\* min_heap_sift_down_inline(h, pos): move slot pos towards the leaves
RECURSIVE SiftDown(_, _)
SiftDown(d, pos) ==
    LET n     == Len(d)
        left  == 2 * pos
        right == 2 * pos + 1
        s1    == IF left <= n /\ d[left] < d[pos] THEN left ELSE pos
        s2    == IF right <= n /\ d[right] < d[s1] THEN right ELSE s1
    IN IF s2 = pos THEN d ELSE SiftDown(Swap(d, pos, s2), s2)

\* min_heap_init_inline(h, data, size)
min_heap_init(size) == [nr |-> 0, size |-> size, data |-> <<>>]

\* min_heap_full_inline(h)
min_heap_full(h) == h.nr = h.size

\* min_heap_push_inline(h, &v, &cbs, NULL) on a heap that is not full
min_heap_push(h, v) ==
    [h EXCEPT !.nr = h.nr + 1, !.data = SiftUp(Append(h.data, v), h.nr + 1)]

\* one iteration of the loop of add_samples
offer(h, v) ==
    IF ~min_heap_full(h) THEN min_heap_push(h, v)
    ELSE IF v > h.data[1]
         THEN [h EXCEPT !.data = SiftDown([h.data EXCEPT ![1] = v], 1)]
         ELSE h

\* add_samples(h, samples, n): samples is the slice samples[0 .. n-1]
RECURSIVE add_samples(_, _)
add_samples(h, samples) ==
    IF samples = <<>> THEN h
    ELSE add_samples(offer(h, Head(samples)), Tail(samples))

\* the sum loop of compute_heap_average; the division is done by the caller
heap_total(h) == CheckedSum(h.data)

\* compute_statistics(my_data, irq_data, preempt_data, n) for one array of
\* n = Len(d) >= 1 samples: the sum is taken over the array as collected,
\* then median_and_max sorts it in place
compute_one(d) ==
    LET t  == CheckedSum(d)
        mm == median_and_max(d)
    IN [median |-> mm.median, avg |-> t.sum \div Len(d), max |-> mm.max,
        sorted |-> mm.sorted, overflow |-> t.overflow]

(* ------------------------------------------------------------------ *)
(* State                                                               *)
(* ------------------------------------------------------------------ *)

VARIABLES
    nr_samples,          \* static size_t nr_samples (config file)
    nr_highest,          \* static size_t nr_highest (config file)
    cached_nr_highest,   \* static size_t cached_nr_highest
    heap,                \* irq_heap and preempt_heap, with the state of .data
    threads_should_run,  \* the completion: TRUE once complete_all was called
    heap_lock,           \* owner of the mutex heap_lock, 0 when free
    data,                \* DEFINE_PER_CPU(struct percpu_data, data)
    stat,                \* irq_stat and preempt_stat
    w,                   \* the per-CPU ktracer threads and the locals of sample_thread_fn
    b,                   \* the task inside benchmark_write / run_benchmark
    pw,                  \* the task inside percentile_write
    g,                   \* history of the current trigger, read by the properties only
    env,                 \* how many runs and writes the environment may still make
    rd,                  \* a task reading the result files of one operation
    fn,                  \* one call of a statistics function on its own: arguments and result
    b2,                  \* a second task inside benchmark_write
    ts,                  \* the tracerstress module: mod_init, its threads and per-CPU data
    sf                   \* the single-file variant: its write handler, threads and per-CPU data

vars == <<nr_samples, nr_highest, cached_nr_highest, heap, threads_should_run,
          heap_lock, data, stat, w, b, pw, g, env, rd, fn, b2, ts, sf>>

irq_heap == heap["irq"]
preempt_heap == heap["preempt"]
irq_stat == stat["irq"]
preempt_stat == stat["preempt"]

\* STATISTICS_INITIALIZER
STATISTICS_INITIALIZER ==
    [median |-> 0, avg |-> 0, max |-> 0, max_avg |-> 0, percentile |-> 0]

\* a store sequence that forgets the last field
PubOrder_without_last ==
    << <<"irq", "median">>, <<"irq", "avg">>, <<"irq", "max">>,
       <<"irq", "max_avg">>, <<"preempt", "median">>, <<"preempt", "avg">>,
       <<"preempt", "max">> >>

\* the four fields run_benchmark stores, in the order it stores them
PubOrder ==
    << <<"irq", "median">>, <<"irq", "avg">>, <<"irq", "max">>,
       <<"irq", "max_avg">>, <<"preempt", "median">>, <<"preempt", "avg">>,
       <<"preempt", "max">>, <<"preempt", "max_avg">> >>

RunFields == {"median", "avg", "max", "max_avg"}

\* a ktracer thread with no sample_thread_fn frame
IdleWorker(pc) ==
    [pc |-> pc, stop |-> FALSE, n |-> 0, nh |-> 0,
     irq_ok |-> FALSE, preempt_ok |-> FALSE, irq |-> <<>>, preempt |-> <<>>]

\* the locals of run_benchmark before the aggregation loop
NoLocals ==
    [total |-> [op \in Ops |-> 0], max |-> [op \in Ops |-> 0],
     medians |-> [op \in Ops |-> <<>>]]

\* no task inside benchmark_write; made counts the threads a registration created
IdleCaller ==
    [pc |-> "idle", n |-> 0, ret |-> 0, cpu |-> 0, made |-> 0, k |-> 0, rb |-> NoLocals]

\* no second task inside benchmark_write
IdleSecond == [pc |-> "idle", n |-> 0, ret |-> 0]

\* the tracerstress module is not loaded
NoStress == [pc |-> "none"]

\* the single-file variant is not loaded
NoSingleFile == [pc |-> "none"]

\* the operations tracerstress.c measures, and the durations of each
StressOps == {"irqsoff", "preempt"}
StressVals(op) == IF op = "irqsoff" THEN {1, MaxStressDelta} ELSE {1}

\* the tracerstress module at the start of mod_init on cpus online CPUs,
\* loaded with the parameter nr_samples = n
StressLoaded(cpus, n) ==
    [pc |-> "load", nr_cpus |-> cpus, nr_samples |-> n, cpu |-> 0, ret |-> 0,
     thread |-> [c \in 1 .. cpus |-> "none"],
     data |-> [c \in 1 .. cpus |->
                 [irqsoff |-> [median |-> 0, average |-> 0, max |-> 0, data |-> <<>>],
                  preempt |-> [median |-> 0, average |-> 0, max |-> 0, data |-> <<>>],
                  should_run |-> TRUE]],
     total |-> [op \in StressOps |-> 0],
     max |-> [op \in StressOps |-> 0],
     medians |-> [op \in StressOps |-> <<>>],
     warned |-> FALSE, sampled |-> {},
     out |-> [op \in StressOps |-> [average |-> 0, max |-> 0, median |-> 0]]]

\* the single-file variant after mod_init: nr_samples = 0, every should_run
\* true, an empty stat_buffer; calls counts the sample_thread_fn calls of
\* each CPU since the last write began
SingleFileLoaded ==
    [pc |-> "idle", nr_samples |-> 0, writes |-> MaxDbgfsWrites, cpu |-> 0, ret |-> 0,
     thread |-> [c \in CPUs |-> "none"],
     data |-> [c \in CPUs |->
                 [irqsoff |-> [median |-> 0, average |-> 0, max |-> 0],
                  preempt |-> [median |-> 0, average |-> 0, max |-> 0],
                  should_run |-> TRUE]],
     calls |-> [c \in CPUs |-> 0],
     warned |-> FALSE,
     stat_buffer |-> [op \in StressOps |-> [average |-> 0, max |-> 0, median |-> 0]]]

\* the result files of one subdirectory, in the order of debugfs_result_files
ResultFiles == <<"median", "avg", "max", "max_avg">>

\* no read() of a result file in progress
IdleReader == [pc |-> "idle", op |-> "irq", k |-> 0, vals |-> <<>>, new |-> {}, old |-> {}]

\* the percentile trigger has no caller
IdlePercentile ==
    [pc |-> "idle", arg |-> 0, ret |-> 0, sampled |-> FALSE,
     irq |-> <<>>, preempt |-> <<>>]

\* no statistics function is called on its own
NoCall == [pc |-> "none", percentile |-> 0, p |-> <<>>, out |-> <<>>]

\* nothing recorded yet for the current trigger
History ==
    [pre |-> [op \in Ops |-> STATISTICS_INITIALIZER],
     fresh |-> {}, warned |-> FALSE, divzero |-> FALSE, allocfail |-> {},
     badread |-> {}, sampled |-> {}, registered |-> {}, opened |-> FALSE,
     computed |-> {}, finished |-> {}, calls |-> [c \in CPUs |-> 0],
     taken |-> [op \in Ops |-> <<>>], offered |-> [op \in Ops |-> <<>>]]

\* the module after mod_init; budget is what the environment may do
Loaded(budget) ==
    /\ nr_samples = MaxSamples
    /\ nr_highest = MaxHighest
    /\ cached_nr_highest = 0
    /\ heap = [op \in Ops |-> [nr |-> 0, size |-> 0, data |-> <<>>, mem |-> "unset"]]
    /\ threads_should_run = FALSE
    /\ heap_lock = 0
    /\ data = [c \in CPUs |->
                 [irq |-> [median |-> 0, avg |-> 0, max |-> 0],
                  preempt |-> [median |-> 0, avg |-> 0, max |-> 0],
                  should_run |-> TRUE]]
    /\ stat = [op \in Ops |-> STATISTICS_INITIALIZER]
    /\ w = [c \in CPUs |-> IdleWorker("none")]
    /\ b = IdleCaller
    /\ pw = IdlePercentile
    /\ g = History
    /\ env = budget
    /\ rd = IdleReader
    /\ b2 = IdleSecond

Init ==
    /\ Loaded([runs |-> MaxRuns, cfg |-> MaxConfigWrites, pct |-> 0])
    /\ fn = NoCall
    /\ ts = NoStress
    /\ sf = NoSingleFile

InitPercentile ==
    /\ Loaded([runs |-> MaxRunsObserved, cfg |-> MaxConfigWrites,
               pct |-> MaxPercentileWrites])
    /\ fn = NoCall
    /\ ts = NoStress
    /\ sf = NoSingleFile

InitReader ==
    /\ Loaded([runs |-> MaxRunsObserved, cfg |-> 0, pct |-> 0])
    /\ fn = NoCall
    /\ ts = NoStress
    /\ sf = NoSingleFile

\* the module idle, and the arguments of one call of a statistics function:
\* an array of n >= 1 durations and a percentile
InitOverlap ==
    /\ Loaded([runs |-> MaxRunsObserved, cfg |-> 0, pct |-> 0])
    /\ fn = NoCall
    /\ ts = NoStress
    /\ sf = NoSingleFile

InitStress ==
    /\ Loaded([runs |-> 0, cfg |-> 0, pct |-> 0])
    /\ fn = NoCall
    /\ sf = NoSingleFile
    /\ \E cpus \in 1 .. MaxStressCpus, n \in 0 .. MaxSamples : ts = StressLoaded(cpus, n)

InitSingleFile ==
    /\ Loaded([runs |-> 0, cfg |-> 0, pct |-> 0])
    /\ fn = NoCall
    /\ ts = NoStress
    /\ sf = SingleFileLoaded

InitFunctions ==
    /\ Loaded([runs |-> 0, cfg |-> 0, pct |-> 0])
    /\ ts = NoStress
    /\ sf = NoSingleFile
    /\ \E percentile \in ValidPercents, p \in Arrays :
          fn = [pc |-> "args", percentile |-> percentile, p |-> p, out |-> <<>>]

(* ------------------------------------------------------------------ *)
(* Configuration files (debugfs_create_size_t): writable at any time   *)
(* ------------------------------------------------------------------ *)

config_write_nr_samples(v) ==
    /\ env.cfg > 0
    /\ env' = [env EXCEPT !.cfg = @ - 1]
    /\ nr_samples' = v
    /\ UNCHANGED <<nr_highest, cached_nr_highest, heap, threads_should_run,
                   heap_lock, data, stat, w, b, pw, g, rd, fn, b2, ts, sf>>

config_write_nr_highest(v) ==
    /\ env.cfg > 0
    /\ env' = [env EXCEPT !.cfg = @ - 1]
    /\ nr_highest' = v
    /\ UNCHANGED <<nr_samples, cached_nr_highest, heap, threads_should_run,
                   heap_lock, data, stat, w, b, pw, g, rd, fn, b2, ts, sf>>

(* ------------------------------------------------------------------ *)
(* The per-CPU thread: smpboot_thread_fn calling sample_thread_fn      *)
(* ------------------------------------------------------------------ *)

\* values an out-of-bounds read of kernel memory yields in the model
GarbageVals == {0, U64Max}

\* samples + (n - nh) for nh <= n: the trailing nh entries of the array
TopSlice(a, n, nh) == SubSeq(a, n - nh + 1, n)

\* sample_thread_fn up to the two kvmalloc_array calls.  The thread calls
\* it when kthread_should_stop() is false and sample_thread_should_run()
\* is true.  kvmalloc_array(0, ..) returns ZERO_SIZE_PTR, which is not NULL.
sample_thread_fn_alloc(c, irq_ok, preempt_ok) ==
    /\ w[c].pc = "loop"
    /\ ~w[c].stop
    /\ data[c].should_run
    /\ nr_samples = 0 => (irq_ok /\ preempt_ok)
    /\ w' = [w EXCEPT ![c] =
                [@ EXCEPT !.pc = IF irq_ok /\ preempt_ok THEN "wait" ELSE "stats",
                          !.n = nr_samples,
                          !.nh = cached_nr_highest,
                          !.irq_ok = irq_ok,
                          !.preempt_ok = preempt_ok]]
    /\ g' = [g EXCEPT !.allocfail =
                           IF irq_ok /\ preempt_ok THEN @ ELSE @ \cup {c},
                       !.calls[c] = @ + 1]
    /\ UNCHANGED <<nr_samples, nr_highest, cached_nr_highest, heap,
                   threads_should_run, heap_lock, data, stat, b, pw, env, rd, fn, b2, ts, sf>>

\* a thread that does not wait for the completion
wait_for_completion_skipped(done) == TRUE

\* wait_for_completion(x) returns once complete_all(x) has marked x done
wait_for_completion(done) == done

\* wait_for_completion(&threads_should_run); collect_data(irq, preempt, n)
sample_thread_fn_collect(c) ==
    /\ w[c].pc = "wait"
    /\ wait_for_completion(threads_should_run)
    /\ \E irq \in [1 .. w[c].n -> IrqVals], preempt \in [1 .. w[c].n -> PreemptVals] :
          /\ w' = [w EXCEPT ![c] = [@ EXCEPT !.pc = "stats", !.irq = irq,
                                             !.preempt = preempt]]
          /\ g' = [g EXCEPT !.sampled = @ \cup {c},
                            !.taken = [irq |-> sort(@.irq \o irq),
                                       preempt |-> sort(@.preempt \o preempt)]]
    /\ UNCHANGED <<nr_samples, nr_highest, cached_nr_highest, heap,
                   threads_should_run, heap_lock, data, stat, b, pw, env, rd, fn, b2, ts, sf>>

\* a thread function that leaves should_run as it is at module load
should_run_left_set == TRUE

\* my_data->should_run = false
should_run_cleared == FALSE

\* compute_statistics(my_data, irq, preempt, n) and should_run = false.
\* With a NULL array and n >= 1 the first loop iteration reads address 0;
\* with n = 0 median_and_max reads p[n-1] below ZERO_SIZE_PTR.  Both reads
\* fault in the kernel: the thread dies in an oops before it stores
\* anything.
sample_thread_fn_stats(c) ==
    /\ w[c].pc = "stats"
    /\ IF w[c].irq_ok /\ w[c].preempt_ok /\ w[c].n >= 1
       THEN LET si == compute_one(w[c].irq)
                sp == compute_one(w[c].preempt)
            IN /\ data' = [data EXCEPT ![c] =
                    [irq |-> [median |-> si.median, avg |-> si.avg, max |-> si.max],
                     preempt |-> [median |-> sp.median, avg |-> sp.avg, max |-> sp.max],
                     should_run |-> should_run_cleared]]
               /\ w' = [w EXCEPT ![c] = [@ EXCEPT !.pc = "lock",
                                                  !.irq = si.sorted,
                                                  !.preempt = sp.sorted]]
               /\ g' = [g EXCEPT !.warned = @ \/ si.overflow \/ sp.overflow,
                                 !.computed = @ \cup {c}]
       ELSE /\ w' = [w EXCEPT ![c] = [IdleWorker("oops") EXCEPT !.stop = w[c].stop]]
            /\ g' = [g EXCEPT !.badread = @ \cup {c}]
            /\ UNCHANGED data
    /\ UNCHANGED <<nr_samples, nr_highest, cached_nr_highest, heap,
                   threads_should_run, heap_lock, stat, b, pw, env, rd, fn, b2, ts, sf>>

\* a mutex that is handed out while another task holds it
mutex_lock_unfair(owner) == TRUE

\* mutex_lock returns only when no task owns the mutex
mutex_lock(owner) == owner = 0

\* guard(mutex)(&heap_lock)
sample_thread_fn_lock(c) ==
    /\ w[c].pc = "lock"
    /\ mutex_lock(heap_lock)
    /\ heap_lock' = c
    /\ w' = [w EXCEPT ![c].pc = "add_irq"]
    /\ UNCHANGED <<nr_samples, nr_highest, cached_nr_highest, heap,
                   threads_should_run, data, stat, b, pw, g, env, rd, fn, b2, ts, sf>>

\* add_samples(h, a + (n - nh), nh).  For nh > n the size_t difference
\* wraps and the slice starts nh - n entries below the array: those reads
\* are out of bounds and yield whatever the memory holds.
sample_thread_fn_add(c, op, next) ==
    /\ w[c].pc = "add_" \o op
    /\ LET n == w[c].n
           nh == w[c].nh
       IN IF nh <= n
          THEN /\ heap' = [heap EXCEPT ![op] =
                             add_samples(@, TopSlice(w[c][op], n, nh))]
               /\ g' = [g EXCEPT !.offered[op] =
                             sort(@ \o TopSlice(w[c][op], n, nh)),
                                 !.finished = IF next = "loop" THEN @ \cup {c} ELSE @]
          ELSE \E junk \in [1 .. nh - n -> GarbageVals] :
                  /\ heap' = [heap EXCEPT ![op] = add_samples(@, junk \o w[c][op])]
                  /\ g' = [g EXCEPT !.badread = @ \cup {c},
                                    !.offered[op] = sort(@ \o junk \o w[c][op]),
                                    !.finished = IF next = "loop" THEN @ \cup {c} ELSE @]
    /\ IF next = "loop"
       THEN \* the end of sample_thread_fn: the mutex guard and the __free(kvfree) arrays
            /\ w' = [w EXCEPT ![c] = [IdleWorker("loop") EXCEPT !.stop = w[c].stop]]
            /\ heap_lock' = 0
       ELSE /\ w' = [w EXCEPT ![c].pc = next]
            /\ UNCHANGED heap_lock
    /\ UNCHANGED <<nr_samples, nr_highest, cached_nr_highest,
                   threads_should_run, data, stat, b, pw, env, rd, fn, b2, ts, sf>>

sample_thread_fn_add_irq(c) == sample_thread_fn_add(c, "irq", "add_preempt")
sample_thread_fn_add_preempt(c) == sample_thread_fn_add(c, "preempt", "loop")

\* smpboot_thread_fn sees kthread_should_stop(): sample_thread_cleanup, exit
sample_thread_cleanup(c) ==
    /\ w[c].pc = "loop"
    /\ w[c].stop
    /\ data' = [data EXCEPT ![c].should_run = TRUE]
    /\ w' = [w EXCEPT ![c].pc = "exited"]
    /\ UNCHANGED <<nr_samples, nr_highest, cached_nr_highest, heap,
                   threads_should_run, heap_lock, stat, b, pw, g, env, rd, fn, b2, ts, sf>>

(* ------------------------------------------------------------------ *)
(* The benchmark trigger: benchmark_write, init_heaps, run_benchmark   *)
(* ------------------------------------------------------------------ *)

\* a zero test that lets every sample count through
samples_invalid_never(n) == FALSE

\* the test of nr_samples in benchmark_write and percentile_write
samples_invalid(n) == n = 0

\* a benchmark_write that does not free the heap arrays
FreeHeaps_forgotten(h) == h

\* kvfree(irq_heap.data); kvfree(preempt_heap.data)
FreeHeaps(h) == [op \in Ops |-> [h[op] EXCEPT !.mem = "freed", !.data = <<>>]]

\* benchmark_write up to WRITE_ONCE(cached_nr_highest, ..)
benchmark_write_enter ==
    /\ b.pc = "idle"
    /\ g' = [History EXCEPT !.pre = stat]
    /\ IF samples_invalid(nr_samples)
       THEN /\ b' = [b EXCEPT !.pc = "returned", !.n = nr_samples, !.ret = -EINVAL]
            /\ UNCHANGED cached_nr_highest
       ELSE /\ b' = [b EXCEPT !.pc = "init_heaps", !.n = nr_samples]
            /\ cached_nr_highest' = Min(nr_samples, nr_highest)
    /\ UNCHANGED <<nr_samples, nr_highest, heap, threads_should_run,
                   heap_lock, data, stat, w, pw, env, rd, fn, b2, ts, sf>>

\* init_heaps: both kvmalloc_array calls succeed (ok) or one fails
init_heaps(ok) ==
    /\ b.pc = "init_heaps"
    /\ IF ok
       THEN /\ env.runs > 0
            /\ env' = [env EXCEPT !.runs = @ - 1]
            /\ heap' = [op \in Ops |->
                          min_heap_init(cached_nr_highest + 1) @@ [mem |-> "live"]]
            /\ b' = [b EXCEPT !.pc = "register", !.cpu = 1]
       ELSE /\ b' = [b EXCEPT !.pc = "returned", !.ret = -ENOMEM]
            /\ UNCHANGED <<heap, env>>
    /\ UNCHANGED <<nr_samples, nr_highest, cached_nr_highest,
                   threads_should_run, heap_lock, data, stat, w, pw, g, rd, fn, b2, ts, sf>>

\* smpboot_register_percpu_thread(&sample_thread), one iteration of its
\* for_each_online_cpu loop: the ktracer thread of CPU b.cpu is created and
\* unparked (ok), or its creation fails.  After a failure the threads
\* already created are stopped before run_benchmark returns the error and
\* benchmark_write frees the heaps.
run_benchmark_register(ok) ==
    /\ b.pc = "register"
    /\ IF ok
       THEN /\ w' = [w EXCEPT ![b.cpu] = IdleWorker("loop")]
            /\ b' = IF b.cpu < NCPU
                    THEN [b EXCEPT !.cpu = b.cpu + 1]
                    ELSE [b EXCEPT !.pc = "complete_all", !.cpu = 0]
            /\ g' = [g EXCEPT !.registered = @ \cup {b.cpu}]
            /\ UNCHANGED heap
       ELSE IF b.cpu = 1
       THEN /\ b' = [b EXCEPT !.pc = "returned", !.ret = -ENOMEM, !.cpu = 0]
            /\ heap' = FreeHeaps(heap)
            /\ UNCHANGED <<w, g>>
       ELSE /\ b' = [b EXCEPT !.pc = "destroy", !.made = b.cpu - 1, !.cpu = 1]
            /\ UNCHANGED <<heap, w, g>>
    /\ UNCHANGED <<nr_samples, nr_highest, cached_nr_highest,
                   threads_should_run, heap_lock, data, stat, pw, env, rd, fn, b2, ts, sf>>

\* complete_all(&threads_should_run)
run_benchmark_complete_all ==
    /\ b.pc = "complete_all"
    /\ threads_should_run' = TRUE
    /\ b' = [b EXCEPT !.pc = "unregister", !.cpu = 1]
    /\ g' = [g EXCEPT !.opened = TRUE]
    /\ UNCHANGED <<nr_samples, nr_highest, cached_nr_highest, heap,
                   heap_lock, data, stat, w, pw, env, rd, fn, b2, ts, sf>>

\* smpboot_destroy_threads, called by smpboot_unregister_percpu_thread and
\* by a failed registration: kthread_stop() of the thread of b.cpu sets its
\* should-stop flag ...
run_benchmark_kthread_stop ==
    /\ b.pc \in {"unregister", "destroy"}
    /\ ~w[b.cpu].stop
    /\ w' = [w EXCEPT ![b.cpu].stop = TRUE]
    /\ UNCHANGED <<nr_samples, nr_highest, cached_nr_highest, heap,
                   threads_should_run, heap_lock, data, stat, b, pw, g, env, rd, fn, b2, ts, sf>>

\* ... and returns once that thread has exited; the per-CPU ktracer pointer
\* is cleared and the loop goes on to the next CPU
run_benchmark_kthread_join ==
    /\ b.pc \in {"unregister", "destroy"}
    /\ w[b.cpu].stop
    /\ w[b.cpu].pc \in {"exited", "oops"}
    /\ w' = [w EXCEPT ![b.cpu] = IdleWorker("none")]
    /\ IF b.cpu < (IF b.pc = "unregister" THEN NCPU ELSE b.made)
       THEN /\ b' = [b EXCEPT !.cpu = b.cpu + 1]
            /\ UNCHANGED heap
       ELSE IF b.pc = "unregister"
       THEN /\ b' = [b EXCEPT !.pc = "aggregate", !.cpu = 0]
            /\ UNCHANGED heap
       ELSE /\ b' = [b EXCEPT !.pc = "returned", !.ret = -ENOMEM, !.cpu = 0, !.made = 0]
            /\ heap' = FreeHeaps(heap)
    /\ UNCHANGED <<nr_samples, nr_highest, cached_nr_highest,
                   threads_should_run, heap_lock, data, stat, pw, g, env, rd, fn, b2, ts, sf>>

\* the for_each_online_cpu loop of run_benchmark over the per-CPU data
AggregateLocals(d) ==
    [total   |-> [op \in Ops |-> CheckedSum([c \in CPUs |-> d[c][op].avg]).sum],
     max     |-> [op \in Ops |->
                    LET RECURSIVE mx(_, _)
                        mx(c, acc) == IF c > NCPU THEN acc
                                      ELSE mx(c + 1, Max(acc, d[c][op].max))
                    IN mx(1, 0)],
     medians |-> [op \in Ops |-> [c \in CPUs |-> d[c][op].median]]]

AggregateOverflow(d) ==
    \E op \in Ops : CheckedSum([c \in CPUs |-> d[c][op].avg]).overflow

\* a run that leaves the completion as it finds it
reinit_completion_missing(done) == done

\* reinit_completion(x): x is not done afterwards
reinit_completion(done) == FALSE

\* reinit_completion, the two kmalloc_array calls (ok) and the loop
run_benchmark_aggregate(ok) ==
    /\ b.pc = "aggregate"
    /\ threads_should_run' = reinit_completion(threads_should_run)
    /\ IF ok
       THEN /\ b' = [b EXCEPT !.pc = "publish", !.k = 1, !.rb = AggregateLocals(data)]
            /\ g' = [g EXCEPT !.warned = @ \/ AggregateOverflow(data)]
            /\ UNCHANGED heap
       ELSE /\ b' = [b EXCEPT !.pc = "returned", !.ret = -ENOMEM]
            /\ heap' = FreeHeaps(heap)
            /\ UNCHANGED g
    /\ UNCHANGED <<nr_samples, nr_highest, cached_nr_highest, heap_lock,
                   data, stat, w, pw, env, rd, fn, b2, ts, sf>>

\* compute_heap_average(h) for h->nr >= 1
compute_heap_average(h) == heap_total(h).sum \div h.nr

\* the value run_benchmark stores into field f of op's statistics
PublishedValue(op, f) ==
    CASE f = "median"  -> median_and_max(b.rb.medians[op]).median
      [] f = "avg"     -> b.rb.total[op] \div NCPU
      [] f = "max"     -> b.rb.max[op]
      [] f = "max_avg" -> compute_heap_average(heap[op])

\* one of the eight stores of run_benchmark into irq_stat / preempt_stat
run_benchmark_publish ==
    /\ b.pc = "publish"
    /\ LET op == PubOrder[b.k][1]
           f  == PubOrder[b.k][2]
       IN /\ ~(f = "max_avg" /\ heap[op].nr = 0)
          /\ stat' = [stat EXCEPT ![op][f] = PublishedValue(op, f)]
          /\ g' = [g EXCEPT !.fresh = @ \cup {<<op, f>>},
                            !.warned = @ \/ (f = "max_avg" /\ heap_total(heap[op]).overflow)]
    /\ b' = IF b.k < Len(PubOrder) THEN [b EXCEPT !.k = b.k + 1]
            ELSE [b EXCEPT !.pc = "free_heaps", !.k = 0]
    /\ UNCHANGED <<nr_samples, nr_highest, cached_nr_highest, heap,
                   threads_should_run, heap_lock, data, w, pw, env, rd, fn, b2, ts, sf>>

\* compute_heap_average on an empty heap evaluates total / 0.  The divide
\* traps where the CPU raises a divide error (trap: the writing task dies
\* in an oops) and yields 0 where it does not.
run_benchmark_publish_div0(trap) ==
    /\ b.pc = "publish"
    /\ LET op == PubOrder[b.k][1]
           f  == PubOrder[b.k][2]
       IN /\ f = "max_avg" /\ heap[op].nr = 0
          /\ g' = [g EXCEPT !.divzero = TRUE,
                            !.fresh = IF trap THEN @ ELSE @ \cup {<<op, f>>}]
          /\ IF trap
             THEN /\ b' = [b EXCEPT !.pc = "oops"]
                  /\ UNCHANGED stat
             ELSE /\ stat' = [stat EXCEPT ![op][f] = 0]
                  /\ b' = IF b.k < Len(PubOrder) THEN [b EXCEPT !.k = b.k + 1]
                          ELSE [b EXCEPT !.pc = "free_heaps", !.k = 0]
    /\ UNCHANGED <<nr_samples, nr_highest, cached_nr_highest, heap,
                   threads_should_run, heap_lock, data, w, pw, env, rd, fn, b2, ts, sf>>

\* run_benchmark returned 0: the two kvfree calls, return count
benchmark_write_finish ==
    /\ b.pc = "free_heaps"
    /\ heap' = FreeHeaps(heap)
    /\ b' = [b EXCEPT !.pc = "returned", !.ret = WriteCount]
    /\ UNCHANGED <<nr_samples, nr_highest, cached_nr_highest,
                   threads_should_run, heap_lock, data, stat, w, pw, g, env, rd, fn, b2, ts, sf>>

\* the write() system call returns b.ret to its caller
benchmark_write_return ==
    /\ b.pc = "returned"
    /\ b' = IdleCaller
    /\ g' = History
    /\ UNCHANGED <<nr_samples, nr_highest, cached_nr_highest, heap,
                   threads_should_run, heap_lock, data, stat, w, pw, env, rd, fn, b2, ts, sf>>

(* ------------------------------------------------------------------ *)
(* A second task writing the benchmark trigger                         *)
(* ------------------------------------------------------------------ *)

\* the positions of run_benchmark and of the kvfree calls after it
InRun == {"register", "complete_all", "unregister", "destroy", "aggregate",
          "publish", "free_heaps"}

\* benchmark_write of the second task up to WRITE_ONCE(cached_nr_highest, ..);
\* nothing in benchmark_write waits for a call that is in progress
second_benchmark_write_enter ==
    /\ b2.pc = "idle"
    /\ IF samples_invalid(nr_samples)
       THEN /\ b2' = [b2 EXCEPT !.pc = "returned", !.n = nr_samples, !.ret = -EINVAL]
            /\ UNCHANGED cached_nr_highest
       ELSE /\ b2' = [b2 EXCEPT !.pc = "init_heaps", !.n = nr_samples]
            /\ cached_nr_highest' = Min(nr_samples, nr_highest)
    /\ UNCHANGED <<nr_samples, nr_highest, heap, threads_should_run,
                   heap_lock, data, stat, w, b, pw, g, env, rd, fn, ts, sf>>

\* init_heaps called by the second task: min_heap_init_inline stores the new
\* arrays in the global irq_heap and preempt_heap, whatever they held
second_init_heaps(ok) ==
    /\ b2.pc = "init_heaps"
    /\ IF ok
       THEN /\ heap' = [op \in Ops |->
                          min_heap_init(cached_nr_highest + 1) @@ [mem |-> "live"]]
            /\ b2' = [b2 EXCEPT !.pc = "run_benchmark"]
       ELSE /\ b2' = [b2 EXCEPT !.pc = "returned", !.ret = -ENOMEM]
            /\ UNCHANGED heap
    /\ UNCHANGED <<nr_samples, nr_highest, cached_nr_highest,
                   threads_should_run, heap_lock, data, stat, w, b, pw, g, env, rd, fn, ts, sf>>

\* run_benchmark called by the second task.  When no other call is inside
\* benchmark_write and the arrays of the second task are still allocated, the
\* call proceeds as the run of b.  When the other task has freed the arrays
\* meanwhile, the threads of this run would write freed memory; when the
\* other task is inside run_benchmark, sample_thread is registered a second
\* time while it is on the smpboot list.  The last two are undefined
\* behaviour and the second call is not followed further.
second_run_benchmark ==
    /\ b2.pc = "run_benchmark"
    /\ \/ /\ b.pc = "idle"
          /\ \A op \in Ops : heap[op].mem = "live"
          /\ b' = [IdleCaller EXCEPT !.pc = "register", !.cpu = 1, !.n = b2.n]
          /\ b2' = [b2 EXCEPT !.pc = "running"]
          /\ g' = [History EXCEPT !.pre = stat]
       \/ /\ b.pc = "idle"
          /\ \E op \in Ops : heap[op].mem # "live"
          /\ b2' = [b2 EXCEPT !.pc = "use_after_free"]
          /\ UNCHANGED <<b, g>>
       \/ /\ b.pc \in InRun
          /\ b2' = [b2 EXCEPT !.pc = "registered_twice"]
          /\ UNCHANGED <<b, g>>
    /\ UNCHANGED <<nr_samples, nr_highest, cached_nr_highest, heap,
                   threads_should_run, heap_lock, data, stat, w, pw, env, rd, fn, ts, sf>>

(* ------------------------------------------------------------------ *)
(* The percentile trigger                                              *)
(* ------------------------------------------------------------------ *)

\* a range test that forgets the lower end
percentile_invalid_upper_only(nth_percent) == nth_percent > 100

\* the range test of percentile_write
percentile_invalid(nth_percent) == nth_percent = 0 \/ nth_percent > 100

\* what percentile_write hands back to its caller
PercentileResult(p, ret, sampled) ==
    [pc |-> "returned", arg |-> p, ret |-> ret, sampled |-> sampled,
     irq |-> <<>>, preempt |-> <<>>]

\* stores that also overwrite max with the percentile
percentile_store_and_max(s, irq_value, preempt_value) ==
    [s EXCEPT !["irq"].percentile = irq_value, !["irq"].max = irq_value,
              !["preempt"].percentile = preempt_value, !["preempt"].max = preempt_value]

\* the two WRITE_ONCE stores of percentile_write into statistics s
percentile_store(s, irq_value, preempt_value) ==
    [s EXCEPT !["irq"].percentile = irq_value,
              !["preempt"].percentile = preempt_value]

\* percentile_write for the parsed value nth_percent; irq_ok and preempt_ok
\* are the outcomes of its two kvmalloc_array calls
percentile_write(nth_percent, irq_ok, preempt_ok) ==
    /\ pw.pc = "idle"
    /\ env.pct > 0
    /\ env' = [env EXCEPT !.pct = @ - 1]
    /\ LET n == nr_samples
       IN IF samples_invalid(n)
          THEN /\ pw' = PercentileResult(nth_percent, -EINVAL, FALSE)
               /\ UNCHANGED stat
          ELSE IF percentile_invalid(nth_percent)
          THEN /\ pw' = PercentileResult(nth_percent, -EINVAL, FALSE)
               /\ UNCHANGED stat
          ELSE IF ~(irq_ok /\ preempt_ok)
          THEN /\ pw' = PercentileResult(nth_percent, -ENOMEM, FALSE)
               /\ UNCHANGED stat
          ELSE \E irq \in [1 .. n -> IrqVals], preempt \in [1 .. n -> PreemptVals] :
                  /\ stat' = percentile_store(stat, nth_percentile(nth_percent, irq),
                                              nth_percentile(nth_percent, preempt))
                  /\ pw' = [PercentileResult(nth_percent, WriteCount, TRUE)
                               EXCEPT !.irq = irq, !.preempt = preempt]
    /\ UNCHANGED <<nr_samples, nr_highest, cached_nr_highest, heap,
                   threads_should_run, heap_lock, data, w, b, g, rd, fn, b2, ts, sf>>

\* the write() system call returns pw.ret to its caller
percentile_write_return ==
    /\ pw.pc = "returned"
    /\ pw' = IdlePercentile
    /\ UNCHANGED <<nr_samples, nr_highest, cached_nr_highest, heap,
                   threads_should_run, heap_lock, data, stat, w, b, g, env, rd, fn, b2, ts, sf>>

(* ------------------------------------------------------------------ *)
(* The result files (debugfs_create_u64): each read returns one field  *)
(* ------------------------------------------------------------------ *)

\* a task starts reading the files of subdirectory op while run_benchmark
\* is storing its results
reader_open(op) ==
    /\ rd.pc = "idle"
    /\ b.pc = "publish"
    /\ rd' = [IdleReader EXCEPT !.pc = "reading", !.op = op]
    /\ UNCHANGED <<nr_samples, nr_highest, cached_nr_highest, heap,
                   threads_should_run, heap_lock, data, stat, w, b, pw, g, env, fn, b2, ts, sf>>

\* read() of the next file: the current value of that field.  rd.new and
\* rd.old record whether the run in progress had stored the field yet.
reader_read ==
    /\ rd.pc = "reading"
    /\ rd.k < Len(ResultFiles)
    /\ b.pc \in {"publish", "free_heaps", "returned"}
    /\ LET f == ResultFiles[rd.k + 1]
           isnew == <<rd.op, f>> \in g.fresh
       IN rd' = [rd EXCEPT !.k = @ + 1,
                           !.vals = Append(@, stat[rd.op][f]),
                           !.new = IF isnew THEN @ \cup {f} ELSE @,
                           !.old = IF isnew THEN @ ELSE @ \cup {f}]
    /\ UNCHANGED <<nr_samples, nr_highest, cached_nr_highest, heap,
                   threads_should_run, heap_lock, data, stat, w, b, pw, g, env, fn, b2, ts, sf>>

\* the reading task is done
reader_close ==
    /\ rd.pc = "reading"
    /\ rd' = IdleReader
    /\ UNCHANGED <<nr_samples, nr_highest, cached_nr_highest, heap,
                   threads_should_run, heap_lock, data, stat, w, b, pw, g, env, fn, b2, ts, sf>>

(* ------------------------------------------------------------------ *)
(* The statistics functions called on their own, on the array fn.p     *)
(* ------------------------------------------------------------------ *)

\* everything but fn
module_state == <<nr_samples, nr_highest, cached_nr_highest, heap,
                  threads_should_run, heap_lock, data, stat, w, b, pw, g, env, rd,
                  b2>>

\* nth_percentile(fn.percentile, fn.p, n)
call_nth_percentile ==
    /\ fn.pc = "args"
    /\ fn' = [fn EXCEPT !.pc = "nth_percentile",
                        !.out = [value |-> nth_percentile(fn.percentile, fn.p)]]
    /\ UNCHANGED <<module_state, ts, sf>>

\* median_and_max(fn.p, n, &max)
call_median_and_max ==
    /\ fn.pc = "args"
    /\ fn' = [fn EXCEPT !.pc = "median_and_max", !.out = median_and_max(fn.p)]
    /\ UNCHANGED <<module_state, ts, sf>>

\* compute_statistics(my_data, fn.p, .., n), the statistics of one array
call_compute_statistics ==
    /\ fn.pc = "args"
    /\ fn' = [fn EXCEPT !.pc = "compute_statistics", !.out = compute_one(fn.p)]
    /\ UNCHANGED <<module_state, ts, sf>>

(* ------------------------------------------------------------------ *)
(* tracerstress.c: the statistics are computed once, by mod_init       *)
(* ------------------------------------------------------------------ *)

\* get_median(p, n) of tracerstress.c for n = Len(p) >= 1: the array after
\* the in-place ascending sort and the value returned
stress_get_median(p) ==
    LET n == Len(p)
        s == sort(p)
        pos == n \div 2
    IN [sorted |-> s,
        median |-> IF n % 2 = 1 THEN s[pos + 1]
                   ELSE ((s[pos + 1] + s[pos]) % Modulus) \div 2]

\* the statistics sample_thread_cleanup stores for one array of nr_samples
\* durations; .data is freed
stress_statistics(d) ==
    LET t == CheckedSum(d)
        m == stress_get_median(d)
    IN [median |-> m.median, average |-> t.sum \div Len(d),
        max |-> m.sorted[Len(d)], data |-> <<>>, overflow |-> t.overflow]

\* the divisor of the two averages mod_init prints
stress_divisor(nr_cpus) == 2

stress_mod_init_vars == <<module_state, fn, sf>>

\* mod_init up to complete_all(&threads_should_run): the nr_samples test and
\* smpboot_register_percpu_thread, which creates the thread of every online
\* CPU (ok) or fails.  sample_thread_fn of tracerstress.c does not wait for
\* the completion.
stress_mod_init_register(ok) ==
    /\ ts.pc = "load"
    /\ ts' = IF ts.nr_samples = 0
             THEN [ts EXCEPT !.pc = "returned", !.ret = -EINVAL]
             ELSE IF ok
             THEN [ts EXCEPT !.pc = "unregister", !.cpu = 1,
                             !.thread = [c \in 1 .. ts.nr_cpus |-> "loop"]]
             ELSE [ts EXCEPT !.pc = "returned", !.ret = -ENOMEM]
    /\ UNCHANGED stress_mod_init_vars

\* sample_thread_fn on CPU c: both arrays are allocated and filled (ok), or
\* an allocation fails and .data of the CPU is not a usable array
stress_sample_thread_fn(c, ok) ==
    /\ ts.pc = "unregister"
    /\ c \in 1 .. ts.nr_cpus
    /\ ts.thread[c] = "loop"
    /\ ts.data[c].should_run
    /\ \E irqsoff \in [1 .. ts.nr_samples -> StressVals("irqsoff")],
          preempt \in [1 .. ts.nr_samples -> StressVals("preempt")] :
          ts' = [ts EXCEPT !.thread[c] = "ran",
                           !.data[c].should_run = FALSE,
                           !.data[c].irqsoff.data = IF ok THEN irqsoff ELSE <<>>,
                           !.data[c].preempt.data = IF ok THEN preempt ELSE <<>>]
    /\ UNCHANGED stress_mod_init_vars

\* smpboot_unregister_percpu_thread, the thread of CPU ts.cpu: kthread_stop,
\* and sample_thread_cleanup when the thread had started.  A thread stopped
\* before its first pass through the smpboot loop exits without cleanup; a
\* cleanup that finds no array reads through a null pointer.
stress_kthread_stop ==
    /\ ts.pc = "unregister"
    /\ LET c == ts.cpu
           next == IF c < ts.nr_cpus THEN [pc |-> "unregister", cpu |-> c + 1]
                   ELSE [pc |-> "alloc", cpu |-> 0]
       IN IF ts.thread[c] = "loop"
          THEN ts' = [ts EXCEPT !.thread[c] = "exited", !.pc = next.pc, !.cpu = next.cpu]
          ELSE IF ts.data[c].irqsoff.data = <<>>
          THEN ts' = [ts EXCEPT !.thread[c] = "oops", !.pc = "oops"]
          ELSE LET irqsoff == stress_statistics(ts.data[c].irqsoff.data)
                   preempt == stress_statistics(ts.data[c].preempt.data)
               IN ts' = [ts EXCEPT
                           !.thread[c] = "exited", !.pc = next.pc, !.cpu = next.cpu,
                           !.sampled = @ \cup {c},
                           !.warned = @ \/ irqsoff.overflow \/ preempt.overflow,
                           !.data[c].irqsoff = [median |-> irqsoff.median,
                                                average |-> irqsoff.average,
                                                max |-> irqsoff.max, data |-> <<>>],
                           !.data[c].preempt = [median |-> preempt.median,
                                                average |-> preempt.average,
                                                max |-> preempt.max, data |-> <<>>]]
    /\ UNCHANGED stress_mod_init_vars

\* the two kmalloc_array calls for the medians
stress_mod_init_alloc(irqsoff_ok, preempt_ok) ==
    /\ ts.pc = "alloc"
    /\ ts' = IF irqsoff_ok /\ preempt_ok
             THEN [ts EXCEPT !.pc = "loop", !.cpu = 1]
             ELSE [ts EXCEPT !.pc = "returned", !.ret = -ENOMEM]
    /\ UNCHANGED stress_mod_init_vars

\* one iteration of for_each_online_cpu in mod_init
stress_mod_init_loop ==
    /\ ts.pc = "loop"
    /\ LET my_data == ts.data[ts.cpu]
           irqsoff == check_add_overflow(ts.total.irqsoff, my_data.irqsoff.average)
           preempt == check_add_overflow(ts.total.preempt, my_data.preempt.average)
       IN ts' = [ts EXCEPT
                   !.total = [irqsoff |-> irqsoff.sum, preempt |-> preempt.sum],
                   !.warned = @ \/ irqsoff.overflow \/ preempt.overflow,
                   !.max = [irqsoff |-> Max(@.irqsoff, my_data.irqsoff.max),
                            preempt |-> Max(@.preempt, my_data.preempt.max)],
                   !.medians = [irqsoff |-> Append(@.irqsoff, my_data.irqsoff.median),
                                preempt |-> Append(@.preempt, my_data.preempt.median)],
                   !.cpu = IF ts.cpu < ts.nr_cpus THEN ts.cpu + 1 ELSE 0,
                   !.pc = IF ts.cpu < ts.nr_cpus THEN "loop" ELSE "print"]
    /\ UNCHANGED stress_mod_init_vars

\* get_median of the medians and the two pr_info lines
stress_mod_init_print ==
    /\ ts.pc = "print"
    /\ ts' = [ts EXCEPT
                !.pc = "returned", !.ret = 0,
                !.out = [op \in StressOps |->
                           [average |-> ts.total[op] \div stress_divisor(ts.nr_cpus),
                            max |-> ts.max[op],
                            median |-> stress_get_median(ts.medians[op]).median]]]
    /\ UNCHANGED stress_mod_init_vars

(* ------------------------------------------------------------------ *)
(* src/unnamed/part_000: one debugfs file; a write of a sample count   *)
(* runs the benchmark and formats the results into stat_buffer         *)
(* ------------------------------------------------------------------ *)

\* the sequence s back to front
Reversed(s) == [j \in 1 .. Len(s) |-> s[Len(s) + 1 - j]]

\* get_median(p, n) of part_000 for n = Len(p) >= 1; cmp orders the array
\* descending
dbgfs_get_median(p) ==
    LET n == Len(p)
        s == Reversed(sort(p))
        pos == n \div 2
    IN [sorted |-> s,
        median |-> IF n % 2 = 1 THEN s[pos + 1]
                   ELSE ((s[pos + 1] + s[pos]) % Modulus) \div 2]

\* compute_statistics of part_000 for one array of n = Len(d) >= 1
\* durations: max is the first entry after get_median sorted the array
dbgfs_compute_statistics(d) ==
    LET t == CheckedSum(d)
        m == dbgfs_get_median(d)
    IN [median |-> m.median, average |-> t.sum \div Len(d), max |-> m.sorted[1]]

dbgfs_vars == <<module_state, fn, ts>>

\* my_dbgfs_write with the number res in the user's buffer, up to the call
\* of run_benchmark
my_dbgfs_write(res) ==
    /\ sf.pc = "idle"
    /\ sf.writes > 0
    /\ sf' = IF res = 0
             THEN [sf EXCEPT !.pc = "returned", !.ret = -EINVAL, !.writes = @ - 1,
                             !.calls = [c \in CPUs |-> 0]]
             ELSE [sf EXCEPT !.pc = "register", !.nr_samples = res, !.writes = @ - 1,
                             !.calls = [c \in CPUs |-> 0]]
    /\ UNCHANGED dbgfs_vars

\* smpboot_register_percpu_thread creates the thread of every online CPU
\* (ok) or fails; complete_all(&threads_should_run), which no thread of this
\* variant waits for
dbgfs_run_benchmark_register(ok) ==
    /\ sf.pc = "register"
    /\ sf' = IF ok
             THEN [sf EXCEPT !.pc = "unregister", !.cpu = 1,
                             !.thread = [c \in CPUs |-> "loop"]]
             ELSE [sf EXCEPT !.pc = "returned", !.ret = -ENOMEM]
    /\ UNCHANGED dbgfs_vars

\* the smpboot loop of CPU c calls sample_thread_fn when
\* sample_thread_should_run returns the per-CPU should_run.  With both
\* arrays (ok) the thread samples, stores its statistics and clears
\* should_run; without, compute_statistics reads through a null pointer.
dbgfs_sample_thread_fn(c, ok) ==
    /\ sf.pc = "unregister"
    /\ sf.thread[c] = "loop"
    /\ sf.data[c].should_run
    /\ IF ok
       THEN \E irqsoff \in [1 .. sf.nr_samples -> IrqVals],
               preempt \in [1 .. sf.nr_samples -> PreemptVals] :
               sf' = [sf EXCEPT
                        !.thread[c] = "ran",
                        !.calls[c] = @ + 1,
                        !.warned = @ \/ CheckedSum(irqsoff).overflow
                                     \/ CheckedSum(preempt).overflow,
                        !.data[c] = [irqsoff |-> dbgfs_compute_statistics(irqsoff),
                                     preempt |-> dbgfs_compute_statistics(preempt),
                                     should_run |-> FALSE]]
       ELSE sf' = [sf EXCEPT !.thread[c] = "oops", !.calls[c] = @ + 1]
    /\ UNCHANGED dbgfs_vars

\* smpboot_unregister_percpu_thread, the thread of CPU sf.cpu: kthread_stop
\* returns once the thread has exited, whether or not it ran
\* sample_thread_fn.  sample_thread has no cleanup callback.
dbgfs_kthread_stop ==
    /\ sf.pc = "unregister"
    /\ sf' = [sf EXCEPT !.thread[sf.cpu] = "exited",
                        !.cpu = IF sf.cpu < NCPU THEN sf.cpu + 1 ELSE 0,
                        !.pc = IF sf.cpu < NCPU THEN "unregister" ELSE "aggregate"]
    /\ UNCHANGED dbgfs_vars

\* the rest of run_benchmark and the return of my_dbgfs_write: the medians
\* arrays, the loop over the per-CPU data and format_buffer.  .max of the
\* locals irqsoff_stat and preempt_stat is read before it was ever written:
\* irqsoff_max and preempt_max are what the stack held.
dbgfs_run_benchmark_aggregate(irqsoff_ok, preempt_ok, irqsoff_max, preempt_max) ==
    /\ sf.pc = "aggregate"
    /\ IF irqsoff_ok /\ preempt_ok
       THEN LET field(op, f) == [c \in CPUs |-> sf.data[c][op][f]]
                stack == [irqsoff |-> irqsoff_max, preempt |-> preempt_max]
                total(op) == CheckedSum(field(op, "average"))
                largest(op) == Max(stack[op],
                                   dbgfs_get_median(field(op, "max")).sorted[1])
            IN sf' = [sf EXCEPT
                        !.pc = "returned", !.ret = WriteCount,
                        !.warned = @ \/ total("irqsoff").overflow
                                     \/ total("preempt").overflow,
                        !.stat_buffer =
                            [op \in StressOps |->
                               [average |-> total(op).sum \div NCPU,
                                max |-> largest(op),
                                median |-> dbgfs_get_median(field(op, "median")).median]]]
       ELSE sf' = [sf EXCEPT !.pc = "returned", !.ret = -ENOMEM]
    /\ UNCHANGED dbgfs_vars

\* the write() system call returns sf.ret to its caller
my_dbgfs_write_return ==
    /\ sf.pc = "returned"
    /\ sf' = [sf EXCEPT !.pc = "idle", !.ret = 0]
    /\ UNCHANGED dbgfs_vars

(* ------------------------------------------------------------------ *)
(* Specification                                                       *)
(* ------------------------------------------------------------------ *)

Config ==
    \/ \E v \in 0 .. MaxSamples : config_write_nr_samples(v)
    \/ \E v \in 0 .. MaxHighest : config_write_nr_highest(v)

Worker ==
    \E c \in CPUs :
        \/ \E irq_ok, preempt_ok \in BOOLEAN : sample_thread_fn_alloc(c, irq_ok, preempt_ok)
        \/ sample_thread_fn_collect(c)
        \/ sample_thread_fn_stats(c)
        \/ sample_thread_fn_lock(c)
        \/ sample_thread_fn_add_irq(c)
        \/ sample_thread_fn_add_preempt(c)
        \/ sample_thread_cleanup(c)

Benchmark ==
    \/ benchmark_write_enter
    \/ \E ok \in BOOLEAN : init_heaps(ok)
    \/ \E ok \in BOOLEAN : run_benchmark_register(ok)
    \/ run_benchmark_complete_all
    \/ run_benchmark_kthread_stop
    \/ run_benchmark_kthread_join
    \/ \E ok \in BOOLEAN : run_benchmark_aggregate(ok)
    \/ run_benchmark_publish
    \/ \E trap \in BOOLEAN : run_benchmark_publish_div0(trap)
    \/ benchmark_write_finish
    \/ benchmark_write_return

Percentile ==
    \/ \E p \in PercentInputs, irq_ok, preempt_ok \in BOOLEAN :
          percentile_write(p, irq_ok, preempt_ok)
    \/ percentile_write_return

Reader ==
    \/ \E op \in Ops : reader_open(op)
    \/ reader_read
    \/ reader_close

Next == Config \/ Worker \/ Benchmark

\* the module with its config files and the benchmark trigger
Spec == Init /\ [][Next]_vars

NextPercentile == Config \/ Worker \/ Benchmark \/ Percentile

\* the module with its config files and both triggers
SpecPercentile == InitPercentile /\ [][NextPercentile]_vars

NextReader == Worker \/ Benchmark \/ Reader

\* one run under the default configuration, with a task reading results
SpecReader == InitReader /\ [][NextReader]_vars

Stress ==
    \/ \E ok \in BOOLEAN : stress_mod_init_register(ok)
    \/ \E c \in 1 .. MaxStressCpus, ok \in BOOLEAN : stress_sample_thread_fn(c, ok)
    \/ stress_kthread_stop
    \/ \E irqsoff_ok, preempt_ok \in BOOLEAN : stress_mod_init_alloc(irqsoff_ok, preempt_ok)
    \/ stress_mod_init_loop
    \/ stress_mod_init_print

\* loading the tracerstress module on 1 .. MaxStressCpus online CPUs
SpecStress == InitStress /\ [][Stress]_vars

SingleFile ==
    \/ \E res \in 0 .. MaxSamples : my_dbgfs_write(res)
    \/ \E ok \in BOOLEAN : dbgfs_run_benchmark_register(ok)
    \/ \E c \in CPUs, ok \in BOOLEAN : dbgfs_sample_thread_fn(c, ok)
    \/ dbgfs_kthread_stop
    \/ \E irqsoff_ok, preempt_ok \in BOOLEAN, irqsoff_max, preempt_max \in GarbageVals :
          dbgfs_run_benchmark_aggregate(irqsoff_ok, preempt_ok, irqsoff_max, preempt_max)
    \/ my_dbgfs_write_return

\* the single-file variant with a task writing sample counts to its file
SpecSingleFile == InitSingleFile /\ [][SingleFile]_vars

Second ==
    \/ second_benchmark_write_enter
    \/ \E ok \in BOOLEAN : second_init_heaps(ok)
    \/ second_run_benchmark

NextOverlap == Worker \/ Benchmark \/ Second

\* two tasks writing the benchmark trigger under the default configuration
SpecOverlap == InitOverlap /\ [][NextOverlap]_vars

NextFunctions ==
    \/ call_nth_percentile
    \/ call_median_and_max
    \/ call_compute_statistics

\* one call of nth_percentile, median_and_max or compute_statistics
SpecFunctions == InitFunctions /\ [][NextFunctions]_vars

(* ------------------------------------------------------------------ *)
(* Properties                                                          *)
(* ------------------------------------------------------------------ *)

\* a step in which a write to the benchmark trigger begins
BenchmarkCalled == b.pc = "idle" /\ b'.pc # "idle"

\* C1: a write to the benchmark trigger while nr_samples is 0 returns
\* -EINVAL in its first step: no heap is allocated or initialised, no
\* thread is registered, and irq_stat and preempt_stat keep every field.
C1_ZeroSamplesRejected ==
    [][(BenchmarkCalled /\ nr_samples = 0) =>
          /\ b'.pc = "returned"
          /\ b'.ret = -EINVAL
          /\ UNCHANGED <<stat, heap, w, cached_nr_highest, env, data>>]_vars

\* C1 witness: after a completed run has published statistics, a trigger
\* with nr_samples = 0 has returned -EINVAL
C1_Witness ==
    /\ b.pc = "returned"
    /\ b.ret = -EINVAL
    /\ nr_samples = 0
    /\ stat["irq"].max > 0
    /\ stat["preempt"].max_avg > 0

\* a step in which percentile_write runs and hands back its result
PercentileCalled == pw.pc = "idle" /\ pw'.pc = "returned"

\* C2: percentile_write called with a value outside 1..100 returns -EINVAL
\* without sampling and without changing irq_stat, preempt_stat or the
\* per-CPU data; with nr_samples >= 1 a value in 1..100 passes validation:
\* the call samples and returns count unless an allocation fails.
C2_PercentileRangeChecked ==
    [][PercentileCalled =>
          /\ pw'.arg \notin 1 .. 100 =>
                /\ pw'.ret = -EINVAL
                /\ ~pw'.sampled
                /\ UNCHANGED <<stat, data, heap>>
          /\ (pw'.arg \in 1 .. 100 /\ nr_samples >= 1) =>
                /\ pw'.ret \in {WriteCount, -ENOMEM}
                /\ pw'.sampled <=> pw'.ret = WriteCount]_vars

\* C2 witness: with nr_samples >= 1 and statistics of a completed run
\* published, the value 101 has been rejected
C2_Witness ==
    /\ pw.pc = "returned"
    /\ pw.arg = 101
    /\ pw.ret = -EINVAL
    /\ nr_samples >= 1
    /\ stat["irq"].max > 0

\* the sum of a sequence of numbers, without wrapping
RECURSIVE ExactSum(_)
ExactSum(s) == IF s = <<>> THEN 0 ELSE Head(s) + ExactSum(Tail(s))

\* the k largest entries of the ascending sequence s
Largest(s, k) == SubSeq(s, Len(s) - k + 1, Len(s))

\* a run in which every CPU sampled b.n values, no allocation failed, no
\* sum overflowed and no read left its array
CleanRun ==
    /\ g.sampled = CPUs
    /\ \A op \in Ops : Len(g.taken[op]) = NCPU * b.n
    /\ g.allocfail = {}
    /\ g.badread = {}
    /\ ~g.warned
    /\ ~g.divzero

\* C3: after a run that completes on all CPUs with K = cached_nr_highest
\* >= 1, max_avg of each operation is the floor of the mean of the K
\* largest of all samples taken in that run.
C3_MaxAvgIsTopKMean ==
    (b.pc = "returned" /\ b.ret = WriteCount /\ CleanRun /\ cached_nr_highest >= 1) =>
        \A op \in Ops :
            stat[op].max_avg =
                ExactSum(Largest(g.taken[op], cached_nr_highest)) \div cached_nr_highest

\* C4: a heap initialised for K = cached_nr_highest and offered a stream of
\* n values retains min(n, K) of them, the min(n, K) largest.
C4_TrackerKeepsTopK ==
    \A op \in Ops :
        (heap[op].mem = "live" /\ g.badread = {}) =>
            LET m == Min(Len(g.offered[op]), cached_nr_highest)
            IN /\ heap[op].nr = m
               /\ sort(heap[op].data) = Largest(g.offered[op], m)

\* thread c is inside sample_thread_fn
InSampleFn(c) == w[c].pc \in {"wait", "stats", "lock", "add_irq", "add_preempt"}

\* C5: every thread of a run uses the sample count benchmark_write
\* validated when the run was triggered, and a top-K no larger than it.
C5_RunUsesValidatedCount ==
    \A c \in CPUs :
        InSampleFn(c) => (w[c].n = b.n /\ w[c].n # 0 /\ w[c].nh <= w[c].n)

\* C6: a thread whose kvmalloc_array failed never accesses the failed
\* array, and its run publishes nothing and returns -ENOMEM.
C6_AllocFailureFailsRun ==
    /\ g.allocfail \cap g.badread = {}
    /\ g.allocfail # {} => g.fresh = {}
    /\ (g.allocfail # {} /\ b.pc = "returned") => b.ret = -ENOMEM

\* C7: a run in which a checked sum overflowed returns an error and has
\* published nothing.
C7_OverflowReported ==
    (g.warned /\ b.pc = "returned") => (b.ret < 0 /\ g.fresh = {})

\* C8: compute_heap_average never divides by zero.
C8_NoDivisionByZero == ~g.divzero

\* C9: when benchmark_write returns an error, median, avg, max and max_avg
\* of both operations are what they were when it was called and the run
\* stored none of them; when it returns count, the run has stored all
\* eight, and median, avg and max hold what this run aggregated.
C9_RunIsAtomic ==
    b.pc = "returned" =>
        /\ b.ret \in {-EINVAL, -ENOMEM, WriteCount}
        /\ b.ret < 0 =>
              /\ g.fresh = {}
              /\ \A op \in Ops, f \in RunFields : stat[op][f] = g.pre[op][f]
        /\ b.ret = WriteCount =>
              /\ g.fresh = Ops \X RunFields
              /\ \A op \in Ops, f \in RunFields \ {"max_avg"} :
                    stat[op][f] = PublishedValue(op, f)

\* C9 witness: a run whose threads sampled failed with -ENOMEM in
\* run_benchmark while statistics of an earlier run were published
C9_Witness ==
    /\ b.pc = "returned"
    /\ b.ret = -ENOMEM
    /\ g.sampled # {}
    /\ stat["irq"].max > 0

\* C10: a task that reads the result files of one operation while a run
\* stores its results never gets some fields of the new run together with
\* others of the run before.
C10_NoTornRead == ~(rd.new # {} /\ rd.old # {})

\* C11: a thread has sampled in a run only after every CPU's thread of
\* that run was registered and the run's complete_all opened the gate.
C11_NoSampleBeforeGate ==
    g.sampled # {} => (g.opened /\ g.registered = CPUs)

\* C11 witness: in a second run, after a first run that published, a thread
\* has just taken its samples while the coordinator is stopping threads
C11_Witness ==
    /\ b.pc = "unregister"
    /\ env.runs = 0
    /\ stat["irq"].max > 0
    /\ \E c \in CPUs : c \in g.sampled /\ w[c].pc = "stats"

\* C12: when run_benchmark reads the per-CPU statistics and the heaps, every
\* CPU's thread has sampled in this run, has stored its median, avg and max
\* and has finished offering its values to the heaps.
C12_WorkersDoneBeforeAggregation ==
    b.pc \in {"aggregate", "publish", "free_heaps"} =>
        /\ g.sampled = CPUs
        /\ g.computed = CPUs
        /\ g.finished = CPUs

\* the median of a sequence of numbers, the mean of the two middle ones
\* taken without wrapping
ExactMedian(p) ==
    LET n == Len(p)
        s == sort(p)
    IN IF n % 2 = 1 THEN s[n \div 2 + 1]
       ELSE (s[n \div 2] + s[n \div 2 + 1]) \div 2

\* the per-CPU values of field f of operation op, in CPU order
PerCpu(op, f) == [c \in CPUs |-> data[c][op][f]]

\* C13: after a run that returned count, max of each operation is the
\* largest per-CPU max, avg the floor of the mean of the per-CPU avg values
\* and median the median of the per-CPU medians.
C13_AggregationFormulas ==
    (b.pc = "returned" /\ b.ret = WriteCount) =>
        \A op \in Ops :
            /\ \A c \in CPUs : stat[op].max >= data[c][op].max
            /\ \E c \in CPUs : stat[op].max = data[c][op].max
            /\ stat[op].avg = ExactSum(PerCpu(op, "avg")) \div NCPU
            /\ stat[op].median = ExactMedian(PerCpu(op, "median"))

\* v stands at index i (from 0) of p sorted ascending
AtRank(p, v, i) ==
    /\ \E j \in 1 .. Len(p) : p[j] = v
    /\ Cardinality({j \in 1 .. Len(p) : p[j] < v}) <= i
    /\ i < Cardinality({j \in 1 .. Len(p) : p[j] <= v})

\* C14: nth_percentile returns the element at index min(floor(n*p/100), n-1)
\* of the array sorted ascending: the largest element for p = 100 and the
\* smallest whenever floor(n*p/100) is 0.
C14_PercentileIndex ==
    fn.pc = "nth_percentile" =>
        LET n == Len(fn.p)
            i == Min((n * fn.percentile) \div 100, n - 1)
        IN /\ AtRank(fn.p, fn.out.value, i)
           /\ fn.percentile = 100 => \A j \in 1 .. n : fn.p[j] <= fn.out.value
           /\ (n * fn.percentile) \div 100 = 0 => \A j \in 1 .. n : fn.out.value <= fn.p[j]

\* C14 witness: the 100th percentile of the unsorted <<3, 1, 2>> is 3
C14_Witness ==
    /\ fn.pc = "nth_percentile"
    /\ fn.percentile = 100
    /\ fn.p = <<3, 1, 2>>
    /\ fn.out.value = 3

\* C15: median_and_max returns the middle element of the array sorted
\* ascending when n is odd and the floor of (a+b)/2 of the two middle
\* elements when n is even, and reports the largest element as max.
C15_MedianAndMax ==
    fn.pc = "median_and_max" =>
        /\ fn.out.median = ExactMedian(fn.p)
        /\ \A j \in 1 .. Len(fn.p) : fn.p[j] <= fn.out.max
        /\ \E j \in 1 .. Len(fn.p) : fn.p[j] = fn.out.max

\* C16: the avg compute_statistics stores for an array of n copies of one
\* value v is v.
C16_MeanOfConstant ==
    (fn.pc = "compute_statistics" /\ \A j \in 1 .. Len(fn.p) : fn.p[j] = fn.p[1]) =>
        fn.out.avg = fn.p[1]

\* C17: a call of percentile_write changes no field but percentile, no
\* per-CPU statistic and no heap, and when it returns count both percentile
\* fields hold the percentile of the samples this call collected; no step
\* of a benchmark run, a thread or a config write changes a percentile.
C17_DisjointResults ==
    [][/\ PercentileCalled =>
            /\ UNCHANGED <<data, heap>>
            /\ \A op \in Ops, f \in RunFields : stat'[op][f] = stat[op][f]
            /\ pw'.ret = WriteCount =>
                  \A op \in Ops :
                      stat'[op].percentile = nth_percentile(pw'.arg, pw'[op])
            /\ pw'.ret # WriteCount => UNCHANGED stat
       /\ ~PercentileCalled =>
            \A op \in Ops : stat'[op].percentile = stat[op].percentile]_vars

\* C17 witness: a percentile trigger has just stored its result next to the
\* published statistics of a completed run
C17_Witness ==
    /\ pw.pc = "returned"
    /\ pw.ret = WriteCount
    /\ stat["irq"].percentile > 0
    /\ stat["irq"].max_avg > 0
    /\ b.pc = "idle"

\* thread c is between guard(mutex)(&heap_lock) and the end of sample_thread_fn
InAddSamples(c) == w[c].pc \in {"add_irq", "add_preempt"}

\* C18: at most one thread is inside the add_samples calls, that thread
\* owns heap_lock from its first offer to its last, and a step of a thread
\* that changes a heap is a step of the owner of heap_lock.
C18_HeapLockExcludes ==
    [][/\ Cardinality({c \in CPUs : InAddSamples(c)}) <= 1
       /\ \A c \in CPUs : InAddSamples(c) => heap_lock = c
       /\ (heap' # heap /\ b' = b) =>
             \E c \in CPUs :
                 /\ InAddSamples(c)
                 /\ heap_lock = c
                 /\ \A d \in CPUs \ {c} : w'[d] = w[d]]_vars

\* C18 witness: one thread has offered its irq batch and holds heap_lock
\* while the other one is blocked in guard(mutex)
C18_Witness ==
    \E c, d \in CPUs :
        /\ w[c].pc = "add_preempt"
        /\ heap_lock = c
        /\ w[d].pc = "lock"
        /\ heap["irq"].nr > 0

\* C19: a thread that offers to the heaps offers the trailing nh entries
\* of its n-entry arrays, sorted ascending, where nh is the run's
\* cached_nr_highest and does not exceed n.
C19_OffersOwnTopK ==
    \A c \in CPUs :
        InAddSamples(c) =>
            /\ w[c].nh = cached_nr_highest
            /\ w[c].nh <= w[c].n
            /\ \A op \in Ops :
                  /\ Len(w[c][op]) = w[c].n
                  /\ w[c][op] = sort(w[c][op])

\* C20: the completion is done only between complete_all and the
\* reinit_completion of the same run_benchmark call: it is not done when a
\* trigger starts, while threads are registered, or after run_benchmark
\* has returned.
C20_GateClosedBetweenRuns ==
    threads_should_run => b.pc \in {"unregister", "aggregate"}

\* C20 witness: in a second run, after a first run that opened the gate and
\* published, a registered thread waits on the completion before complete_all
C20_Witness ==
    /\ b.pc = "complete_all"
    /\ env.runs = 0
    /\ stat["irq"].max > 0
    /\ ~threads_should_run
    /\ \E c \in CPUs : w[c].pc = "wait"

\* C21: in one run a thread enters sample_thread_fn at most once; past
\* compute_statistics its should_run is false, and should_run goes from
\* false to true only in the step in which the stopped thread runs
\* sample_thread_cleanup and exits.
C21_SamplesAtMostOnce ==
    [][\A c \in CPUs :
          /\ g'.calls[c] <= 1
          /\ (w[c].pc \in {"lock", "add_irq", "add_preempt"}) => ~data[c].should_run
          /\ (~data[c].should_run /\ data'[c].should_run) =>
                (w[c].stop /\ w[c].pc = "loop" /\ w'[c].pc = "exited")]_vars

\* C21 witness: a thread has returned from sample_thread_fn, has not been
\* stopped yet and is kept from running again by should_run = false
C21_Witness ==
    \E c \in CPUs :
        /\ w[c].pc = "loop"
        /\ ~w[c].stop
        /\ ~data[c].should_run
        /\ g.calls[c] = 1
        /\ c \in g.finished

\* C22: after a run that returned count every CPU's should_run is true
\* again, and in that run every CPU's thread computed its per-CPU
\* statistics afresh, so the run aggregated nothing left by an earlier run.
C22_EveryRunSamplesAfresh ==
    (b.pc = "returned" /\ b.ret = WriteCount) =>
        \A c \in CPUs :
            /\ data[c].should_run
            /\ g.calls[c] = 1
            /\ c \in g.computed

\* how often v occurs in the sequence s
Occurrences(s, v) == Cardinality({j \in 1 .. Len(s) : s[j] = v})

\* C23: right after init_heaps both heaps are newly allocated, empty and
\* sized cached_nr_highest + 1; a live heap holds only values offered in the
\* current run; and when benchmark_write has returned, with count or with an
\* error, no heap array is left allocated.
C23_HeapsFreshPerRun ==
    \A op \in Ops :
        /\ (b.pc = "register" /\ b.cpu = 1) =>
              /\ heap[op].mem = "live"
              /\ heap[op].nr = 0
              /\ heap[op].data = <<>>
              /\ heap[op].size = cached_nr_highest + 1
        /\ heap[op].mem = "live" =>
              /\ heap[op].nr = Len(heap[op].data)
              /\ \A j \in 1 .. Len(heap[op].data) :
                    Occurrences(heap[op].data, heap[op].data[j])
                        <= Occurrences(g.offered[op], heap[op].data[j])
        /\ b.pc \in {"returned", "idle"} => heap[op].mem # "live"

\* C23 witness: the second run starts with empty heaps after a first run
\* whose heaps held samples and were freed
C23_Witness ==
    /\ b.pc = "register"
    /\ b.cpu = 1
    /\ env.runs = 0
    /\ stat["irq"].max_avg > 0
    /\ heap["irq"].nr = 0

\* C24: a task that writes the benchmark trigger while another task's run
\* is in progress neither replaces the heap arrays that run uses, nor has its
\* own arrays freed by that run before it used them.
C24_RunsDoNotOverlap ==
    [][/\ (heap' # heap /\ b2' # b2) => b.pc \notin InRun
       /\ (heap' # heap /\ b.pc = "free_heaps") => b2.pc # "run_benchmark"]_vars

\* C25: when mod_init of tracerstress has printed its results and every
\* CPU's thread sampled, the average printed for each operation is the sum of
\* the per-CPU averages divided by the number of online CPUs.
C25_StressAverageOfAverages ==
    (ts.pc = "returned" /\ ts.ret = 0 /\ ~ts.warned
        /\ ts.sampled = 1 .. ts.nr_cpus) =>
        \A op \in StressOps :
            ts.out[op].average =
                ExactSum([c \in 1 .. ts.nr_cpus |-> ts.data[c][op].average])
                    \div ts.nr_cpus

\* C26: in the single-file variant, when a write of a non-zero sample count
\* has returned count, the thread of every CPU called sample_thread_fn once
\* since that write began.
C26_EveryWriteSamples ==
    (sf.pc = "returned" /\ sf.ret = WriteCount) =>
        \A c \in CPUs : sf.calls[c] = 1

====
